---- MODULE Spec2Model ----
(***************************************************************************)
(* A model of sphinx_kconfig/__init__.py: the Kconfig domain (the          *)
(* cross-reference registry), the kconfig:search directive, and the        *)
(* database builder run at builder-inited.                                 *)
(*                                                                         *)
(* Two specifications:                                                     *)
(*   Spec    the read phase of one build: documents are read serially by   *)
(*           the main process or by forked workers whose environments are  *)
(*           merged back, then cross-references are resolved;              *)
(*   SpecDb  the builder-inited handler: kconfig_load and the traversal    *)
(*           that produces the database.                                   *)
(***************************************************************************)
EXTENDS Integers, Sequences, FiniteSets, TLC

VARIABLES
    \* ---- configuration and environment (app.config, app.env) ----
    kconfig_generate_db,  \* app.config.kconfig_generate_db
    kconfig_db,           \* app.env.kconfig_db: the records, in order
    \* ---- the read phase ----
    parallel,             \* whether documents are read by forked workers
    unread,               \* documents of the build not yet read
    pstate,               \* per process: where it is in the read phase
    temp_data,            \* per process: env.temp_data, a dict
    options,              \* per process: domain.data["options"], a list
    aborted,              \* an ExtensionError left run(): the build is over
    calls,                \* log of the calls of KconfigSearch.run, in order
    xref,                 \* the last resolve_xref call: target and result
    \* ---- the builder-inited handler ----
    pc,                   \* "init", "done" (returned) or "failed" (raised)
    root,                 \* what app.config.kconfig_root_path points at
    cwd,                  \* the process working directory
    kconfig,              \* the graph kconfiglib.Kconfig() evaluates to
    kconfig_json,         \* what is written to <outdir>/kconfig/kconfig.json
    html_paths            \* html_extra_path and html_static_path additions

read_vars == <<parallel, unread, pstate, temp_data, options, aborted, calls, xref>>
db_vars   == <<pc, root, cwd, kconfig, kconfig_json, html_paths>>
vars      == <<kconfig_generate_db, kconfig_db, read_vars, db_vars>>

(***************************************************************************)
(* Bounds of the model.                                                    *)
(***************************************************************************)
NDocs == 2          \* documents of the build
NWorkers == 2       \* forked read processes
MaxRunsPerDoc == 2  \* kconfig:search directives in one document
MaxNodes == 2       \* declaration sites of one symbol or choice
MaxLine == 2        \* lines of a Kconfig file
MaxTerms == 2       \* OR-terms of a reverse dependency

Docs    == 1..NDocs
Main    == 0
Workers == 1..NWorkers
Procs   == {Main} \cup Workers

\* Python's None and a value that may be None: the empty and the one-element
\* sequence
None == << >>
Some(x) == <<x>>

\* f"CONFIG_{sc.name}": the prefix and the name, in order
ConfigName(name) == <<"CONFIG_", name>>

\* an empty dict; a dict is a function from its keys
EmptyDict == [k \in {} |-> TRUE]
DictSet(d, key, val) ==
    [k \in DOMAIN d \cup {key} |-> IF k = key THEN val ELSE d[k]]

Range(s) == {s[i] : i \in DOMAIN s}
Last(s) == s[Len(s)]

(***************************************************************************)
(* The Kconfig domain: KconfigDomain.                                      *)
(***************************************************************************)

\* add_option: append (option, option, "option", env.docname, option, -1);
\* env.docname is temp_data["docname"]
add_option(data, td, option) ==
    Append(data, <<option, option, "option", td["docname"], option, -1>>)

\* get_objects: yields the entries in list order
get_objects(data) == data

\* a merge that drops the other worker's entries for names already known
merge_domaindata_dedup(own, other) ==
    own \o SelectSeq(other, LAMBDA e : \A i \in DOMAIN own : own[i][1] # e[1])

\* merge_domaindata: self.data["options"] += otherdata["options"]
merge_domaindata(own, other) == own \o other

\* a resolution that takes the last match, match[-1]
resolve_xref_last(data, fromdocname, target) ==
    LET objs  == get_objects(data)
        hits  == SelectSeq(objs, LAMBDA e : e[1] = target)
        match == [i \in DOMAIN hits |-> <<hits[i][4], hits[i][5]>>]
    IN  IF match # << >>
        THEN Some([refdoc |-> fromdocname, todocname |-> match[Len(match)][1],
                   anchor |-> match[Len(match)][2], title |-> match[Len(match)][2]])
        ELSE None

\* resolve_xref: the (docname, anchor) of every entry whose name is the
\* target, in order; a reference node to the first of them, or None
resolve_xref(data, fromdocname, target) ==
    LET objs  == get_objects(data)
        hits  == SelectSeq(objs, LAMBDA e : e[1] = target)
        match == [i \in DOMAIN hits |-> <<hits[i][4], hits[i][5]>>]
    IN  IF match # << >>
        THEN Some([refdoc |-> fromdocname, todocname |-> match[1][1],
                   anchor |-> match[1][2], title |-> match[1][2]])
        ELSE None

(***************************************************************************)
(* The search directive: KconfigSearch.run.                                *)
(***************************************************************************)

\* all orders in which a finite set can be iterated
RECURSIVE Orders(_)
Orders(S) ==
    IF S = {} THEN {<< >>}
    ELSE UNION {{<<x>> \o o : o \in Orders(S \ {x})} : x \in S}

\* a registration loop that iterates the records themselves, once per record
RegisterOrdersPerRecord(db) == {[i \in DOMAIN db |-> db[i].name]}

\* unique = set({option["name"] for option in env.kconfig_db}); for option
\* in unique: the orders in which the names may be registered (a set's
\* iteration order is not specified)
RegisterOrders(db) == Orders({db[i].name : i \in DOMAIN db})

\* the loop calling domain.add_option for each name of an order
RECURSIVE AddAll(_, _, _)
AddAll(data, td, order) ==
    IF order = << >> THEN data
    ELSE AddAll(add_option(data, td, Head(order)), td, Tail(order))

Logged(p, outcome) ==
    calls' = Append(calls, [proc |-> p, docname |-> temp_data[p]["docname"],
                            outcome |-> outcome])

\* the first raise, with the inserted flag set before the configuration
\* check
RaiseNoDbFlagFirst(p) ==
    /\ temp_data' = [temp_data EXCEPT
                       ![p] = DictSet(@, "kconfig_search_inserted", TRUE)]
    /\ Logged(p, "ErrNoDb")
    /\ aborted' = TRUE
    /\ UNCHANGED options

\* raise ExtensionError("... can not be used without database")
RaiseNoDb(p) ==
    /\ Logged(p, "ErrNoDb")
    /\ aborted' = TRUE
    /\ UNCHANGED <<temp_data, options>>

\* raise ExtensionError("... can only be used once")
RaiseOnce(p) ==
    /\ Logged(p, "ErrOnce")
    /\ aborted' = TRUE
    /\ UNCHANGED <<temp_data, options>>

\* the rest of run(): set the flag, register the names, return the node
Insert(p) ==
    /\ temp_data' = [temp_data EXCEPT
                       ![p] = DictSet(@, "kconfig_search_inserted", TRUE)]
    /\ \E order \in RegisterOrders(kconfig_db) :
          options' = [options EXCEPT ![p] = AddAll(@, temp_data[p], order)]
    /\ Logged(p, "node")
    /\ UNCHANGED aborted

RunsInDoc(p) ==
    Cardinality({i \in DOMAIN calls :
                    /\ calls[i].proc = p
                    /\ calls[i].docname = temp_data[p]["docname"]})

\* KconfigSearch.run in the document process p is reading
Run(p) ==
    /\ ~aborted
    /\ pstate[p] = "indoc"
    /\ RunsInDoc(p) < MaxRunsPerDoc
    /\ IF ~kconfig_generate_db
       THEN RaiseNoDb(p)
       ELSE IF "kconfig_search_inserted" \in DOMAIN temp_data[p]
            THEN RaiseOnce(p)
            ELSE Insert(p)
    /\ UNCHANGED <<kconfig_generate_db, kconfig_db, parallel, unread, pstate,
                   xref, db_vars>>

(***************************************************************************)
(* The host's read phase, as far as the extension depends on it: the       *)
(* extension declares parallel_read_safe, keeps its one-shot flag in       *)
(* env.temp_data and takes the owning document from env.docname.           *)
(***************************************************************************)

\* a process starts reading document d: temp_data["docname"] = d
BeginDoc(p, d) ==
    /\ pc = "done"
    /\ ~aborted
    /\ pstate[p] = "reading"
    /\ d \in unread
    /\ unread' = unread \ {d}
    /\ pstate' = [pstate EXCEPT ![p] = "indoc"]
    /\ temp_data' = [temp_data EXCEPT ![p] = DictSet(@, "docname", d)]
    /\ UNCHANGED <<kconfig_generate_db, kconfig_db, parallel, options, aborted,
                   calls, xref, db_vars>>

\* the document is read: temp_data is cleared
EndDoc(p) ==
    /\ ~aborted
    /\ pstate[p] = "indoc"
    /\ pstate' = [pstate EXCEPT ![p] = "reading"]
    /\ temp_data' = [temp_data EXCEPT ![p] = EmptyDict]
    /\ UNCHANGED <<kconfig_generate_db, kconfig_db, parallel, unread, options,
                   aborted, calls, xref, db_vars>>

\* a read worker is forked: it starts from a copy of the main environment
Fork(w) ==
    /\ pc = "done"
    /\ ~aborted
    /\ parallel
    /\ pstate[w] = "idle"
    /\ unread # {}
    /\ pstate' = [pstate EXCEPT ![w] = "reading"]
    /\ temp_data' = [temp_data EXCEPT ![w] = temp_data[Main]]
    /\ options' = [options EXCEPT ![w] = options[Main]]
    /\ UNCHANGED <<kconfig_generate_db, kconfig_db, parallel, unread, aborted,
                   calls, xref, db_vars>>

\* a read worker has read its documents and returns its environment
Return(w) ==
    /\ ~aborted
    /\ pstate[w] = "reading"
    /\ pstate' = [pstate EXCEPT ![w] = "returned"]
    /\ UNCHANGED <<kconfig_generate_db, kconfig_db, parallel, unread, temp_data,
                   options, aborted, calls, xref, db_vars>>

\* the main process merges a returned worker's domain data
Merge(w) ==
    /\ ~aborted
    /\ pstate[w] = "returned"
    /\ pstate' = [pstate EXCEPT ![w] = "merged"]
    /\ options' = [options EXCEPT
                     ![Main] = merge_domaindata(options[Main], options[w])]
    /\ UNCHANGED <<kconfig_generate_db, kconfig_db, parallel, unread, temp_data,
                   aborted, calls, xref, db_vars>>

ReadDone ==
    /\ unread = {}
    /\ \A p \in Procs : pstate[p] \in {"idle", "reading", "merged", "main"}
    /\ \A w \in Workers : pstate[w] # "reading"

\* the targets of the :kconfig:option: references of the build
Targets == {ConfigName("A"), ConfigName("B"), ConfigName("Z")}

\* a reference in document d to target is resolved in the main process
ResolveXref(d, target) ==
    /\ pc = "done"
    /\ ~aborted
    /\ ReadDone
    /\ xref' = Some([target |-> target,
                     result |-> resolve_xref(options[Main], d, target)])
    /\ UNCHANGED <<kconfig_generate_db, kconfig_db, parallel, unread, pstate,
                   temp_data, options, aborted, calls, db_vars>>

(***************************************************************************)
(* The configuration graph kconfiglib hands over.  An expression is a      *)
(* symbol or choice (a leaf) or a tuple (operator, operand, operand).      *)
(***************************************************************************)

\* a symbol as it occurs in an expression; nodes: whether it has a
\* declaration site
Sym(name, has_nodes) ==
    [op |-> "LEAF", kind |-> "Symbol", name |-> name, nodes |-> has_nodes]
ChoiceLeaf(name) ==
    [op |-> "LEAF", kind |-> "Choice", name |-> name, nodes |-> TRUE]
And(l, r) == [op |-> "AND", l |-> l, r |-> r]
Or(l, r)  == [op |-> "OR", l |-> l, r |-> r]
Not(e)    == [op |-> "NOT", l |-> e]

\* kconfig.y and kconfig.n, the constant symbols
Y == Sym("y", FALSE)
N == Sym("n", FALSE)

\* kconfiglib.standard_sc_expr_str
standard_sc_expr_str(sc) ==
    IF sc.kind = "Symbol" THEN <<sc.name>>
    ELSE IF sc.name # "" THEN <<"<choice ", sc.name, ">">>
    ELSE <<"<choice>">>

\* sc_fmt: a symbol with declaration sites and a named choice render as a
\* link to #CONFIG_<name>, an unnamed choice as the literal marker, the rest
\* as the library renders it
sc_fmt(sc) ==
    IF sc.kind = "Symbol" /\ sc.nodes
    THEN <<"<a href=#">> \o ConfigName(sc.name) \o <<">">>
         \o ConfigName(sc.name) \o <<"</a>">>
    ELSE IF sc.kind = "Choice" /\ sc.name = ""
    THEN <<"&ltchoice&gt">>
    ELSE IF sc.kind = "Choice"
    THEN <<"&ltchoice <a href=#">> \o ConfigName(sc.name) \o <<">">>
         \o ConfigName(sc.name) \o <<"</a>&gt">>
    ELSE standard_sc_expr_str(sc)

\* kconfiglib.expr_str(expr, sc_fmt)
RECURSIVE expr_str(_)
expr_str(e) ==
    LET paren(x, type) ==
            IF x.op = type THEN <<"(">> \o expr_str(x) \o <<")">>
            ELSE expr_str(x)
    IN  CASE e.op = "LEAF" -> sc_fmt(e)
          [] e.op = "AND"  -> paren(e.l, "OR") \o <<" && ">> \o paren(e.r, "OR")
          [] e.op = "OR"   -> paren(e.l, "AND") \o <<" || ">> \o paren(e.r, "AND")
          [] e.op = "NOT"  -> IF e.l.op = "LEAF" THEN <<"!">> \o sc_fmt(e.l)
                              ELSE <<"!(">> \o expr_str(e.l) \o <<")">>

\* kconfiglib.split_expr(expr, op): the operands of the nested op, left to
\* right
RECURSIVE split_expr(_, _)
split_expr(e, op) ==
    IF e.op = op THEN split_expr(e.l, op) \o split_expr(e.r, op)
    ELSE <<e>>

(***************************************************************************)
(* kconfig_load.                                                           *)
(***************************************************************************)

\* the directory the build is started in
StartDir == "docs"

\* kconfig_load: chdir to the root file's directory, parse, chdir back.
\* The outcome: what is returned or raised, and the working directory left.
kconfig_load(rt, dir, kc) ==
    LET wd   == rt.dir      \* os.path.split(kconfig_root_path)[0]
        prev == dir         \* os.getcwd()
    IN  IF wd = ""
        THEN [raised |-> TRUE, cwd |-> dir, kc |-> None]   \* os.chdir("")
        ELSE IF ~rt.parses
        THEN [raised |-> TRUE, cwd |-> wd, kc |-> None]    \* Kconfig() raises
        ELSE [raised |-> FALSE, cwd |-> prev, kc |-> Some(kc)]

(***************************************************************************)
(* kconfig_build_resources: the traversal.                                 *)
(***************************************************************************)

\* the names of the model, in Python's string order
NameOrder == <<"", "A", "B", "C", "D", "E">>
NameKey(name) == CHOOSE i \in DOMAIN NameOrder : NameOrder[i] = name

\* sorted(..., key=lambda sc: sc.name if sc.name else ""): stable
RECURSIVE InsertSorted(_, _)
InsertSorted(sorted, sc) ==
    IF sorted = << >> THEN <<sc>>
    ELSE IF NameKey(Last(sorted).name) <= NameKey(sc.name)
    THEN Append(sorted, sc)
    ELSE Append(InsertSorted(SubSeq(sorted, 1, Len(sorted) - 1), sc),
                Last(sorted))
RECURSIVE SortedByName(_)
SortedByName(scs) ==
    IF scs = << >> THEN << >>
    ELSE InsertSorted(SortedByName(SubSeq(scs, 1, Len(scs) - 1)), Last(scs))

RECURSIVE Flatten(_)
Flatten(ss) == IF ss = << >> THEN << >> ELSE Head(ss) \o Flatten(Tail(ss))

\* "defconfig" in node.filename
IsDefconfig(filename) == \E i \in DOMAIN filename : filename[i] = "defconfig"

\* truthiness of node.prompt (None or a (text, condition) tuple) and of
\* node.help (None or a string)
HasPrompt(node) == node.prompt # None
HasHelp(node) == node.help # None /\ node.help[1] # ""

\* fmt = expr_str(value); if cond is not kconfig.y: fmt += " if " + ...
FmtCond(value, cond) ==
    IF cond # Y THEN expr_str(value) \o <<" if ">> \o expr_str(cond)
    ELSE expr_str(value)

FmtRange(min, max, cond) ==
    LET fmt == <<"[">> \o expr_str(min) \o <<", ">> \o expr_str(max) \o <<"]">>
    IN  IF cond # Y THEN fmt \o <<" if ">> \o expr_str(cond) ELSE fmt

\* alt_defaults: the defaults of the defconfig nodes, each with its file
AltDefaults(sc) ==
    Flatten([i \in DOMAIN sc.nodes |->
        IF ~IsDefconfig(sc.nodes[i].filename) THEN << >>
        ELSE [j \in DOMAIN sc.nodes[i].orig_defaults |->
                <<FmtCond(sc.nodes[i].orig_defaults[j][1],
                          sc.nodes[i].orig_defaults[j][2]),
                  sc.nodes[i].filename>>]])

\* the reverse dependencies with the last AND-term of each OR-term taken
RevNamesLastTerm(sc, rev) ==
    IF sc.kind = "Symbol" /\ rev # N
    THEN LET ors == split_expr(rev, "OR")
         IN  [i \in DOMAIN ors |->
                ConfigName(Last(split_expr(ors[i], "AND")).name)]
    ELSE << >>

\* selected_by / implied_by: split by OR, then the first AND-term of each
RevNames(sc, rev) ==
    IF sc.kind = "Symbol" /\ rev # N
    THEN LET ors == split_expr(rev, "OR")
         IN  [i \in DOMAIN ors |->
                ConfigName(split_expr(ors[i], "AND")[1].name)]
    ELSE << >>

\* the declaration sites that get a record, with no check of the path
SitesNoPathCheck(sc) ==
    SelectSeq(sc.nodes, LAMBDA node : HasPrompt(node) \/ HasHelp(node))

\* path = f"{node.filename}:{node.linenr}"
Path(node) == node.filename \o <<":", node.linenr>>

\* nodes with prompt or help, minus those whose path was inserted before
RECURSIVE Dedup(_, _)
Dedup(nodes, inserted_paths) ==
    IF nodes = << >> THEN << >>
    ELSE IF Path(Head(nodes)) \in inserted_paths
    THEN Dedup(Tail(nodes), inserted_paths)
    ELSE <<Head(nodes)>>
         \o Dedup(Tail(nodes), inserted_paths \cup {Path(Head(nodes))})

\* the declaration sites that get a record, with the defconfig nodes left out
SitesNotDefconfig(sc) ==
    Dedup(SelectSeq(sc.nodes,
                    LAMBDA node : /\ ~IsDefconfig(node.filename)
                                  /\ (HasPrompt(node) \/ HasHelp(node))),
          {})

\* the declaration sites that get a record
Sites(sc) ==
    Dedup(SelectSeq(sc.nodes,
                    LAMBDA node : HasPrompt(node) \/ HasHelp(node)),
          {})

\* menupath: "(Top)" and the titles of the ancestors, outermost first
RECURSIVE MenuPath(_)
MenuPath(ancestors) ==
    IF ancestors = << >> THEN << >>
    ELSE MenuPath(Tail(ancestors))
         \o <<" > ">>
         \o (IF Head(ancestors).prompt # None
             THEN <<Head(ancestors).prompt[1][1]>>
             ELSE standard_sc_expr_str(Head(ancestors).item))

\* kconfiglib.TYPE_TO_STR
TYPE_TO_STR(type) ==
    CASE type = "BOOL" -> "bool" [] type = "TRISTATE" -> "tristate"
      [] type = "INT" -> "int" [] type = "HEX" -> "hex"
      [] type = "STRING" -> "string" [] OTHER -> "unknown"

\* the record of one declaration site
Record(sc, node) ==
    [name         |-> ConfigName(sc.name),
     prompt       |-> IF node.prompt # None THEN Some(node.prompt[1][1])
                      ELSE None,
     type         |-> TYPE_TO_STR(sc.type),
     help         |-> node.help,
     dependencies |-> IF node.dep # Y THEN Some(expr_str(node.dep)) ELSE None,
     defaults     |-> [j \in DOMAIN node.orig_defaults |->
                         FmtCond(node.orig_defaults[j][1],
                                 node.orig_defaults[j][2])],
     alt_defaults |-> AltDefaults(sc),
     selects      |-> [j \in DOMAIN node.orig_selects |->
                         FmtCond(node.orig_selects[j][1],
                                 node.orig_selects[j][2])],
     selected_by  |-> RevNames(sc, sc.rev_dep),
     implies      |-> [j \in DOMAIN node.orig_implies |->
                         FmtCond(node.orig_implies[j][1],
                                 node.orig_implies[j][2])],
     implied_by   |-> RevNames(sc, sc.weak_rev_dep),
     ranges       |-> [j \in DOMAIN node.orig_ranges |->
                         FmtRange(node.orig_ranges[j][1],
                                  node.orig_ranges[j][2],
                                  node.orig_ranges[j][3])],
     choices      |-> IF sc.kind = "Choice"
                      THEN [j \in DOMAIN sc.syms |-> expr_str(sc.syms[j])]
                      ELSE << >>,
     filename     |-> node.filename,
     linenr       |-> node.linenr,
     menupath     |-> <<"(Top)">> \o MenuPath(node.ancestors)]

\* the records of one symbol or choice; none for a nameless one
ScRecords(sc) ==
    IF sc.name = "" THEN << >>
    ELSE LET sites == Sites(sc)
         IN  [i \in DOMAIN sites |-> Record(sc, sites[i])]

\* the database: the records of the symbols and choices, sorted by name
BuildDb(kc) ==
    LET scs == SortedByName(kc.unique_defined_syms \o kc.unique_choices)
    IN  Flatten([i \in DOMAIN scs |-> ScRecords(scs[i])])

\* the builder-inited handler
kconfig_build_resources ==
    /\ pc = "init"
    /\ IF ~kconfig_generate_db
       THEN /\ pc' = "done"
            /\ UNCHANGED <<cwd, kconfig_db, kconfig_json, html_paths>>
       ELSE LET loaded == kconfig_load(root, cwd, kconfig)
            IN  /\ cwd' = loaded.cwd
                /\ IF loaded.raised
                   THEN /\ pc' = "failed"
                        /\ UNCHANGED <<kconfig_db, kconfig_json, html_paths>>
                   ELSE /\ pc' = "done"
                        /\ kconfig_db' = BuildDb(loaded.kc[1])
                        /\ kconfig_json' = Some(BuildDb(loaded.kc[1]))
                        /\ html_paths' = html_paths
                                         \o <<"kconfig/kconfig.json", "static">>
    /\ UNCHANGED <<kconfig_generate_db, root, kconfig, read_vars>>

(***************************************************************************)
(* The inputs: the graphs and root files the builder is run on.            *)
(***************************************************************************)

SeqsUpTo(S, n) == UNION {[1..k -> S] : k \in 0..n}

Node(filename, linenr, text, defaults) ==
    [filename |-> filename, linenr |-> linenr, prompt |-> text.prompt,
     help |-> text.help, dep |-> Y, orig_defaults |-> defaults,
     orig_selects |-> << >>, orig_implies |-> << >>, orig_ranges |-> << >>,
     ancestors |-> << >>]

Sc(kind, name, nodes, rev, weak) ==
    [kind |-> kind, name |-> name, type |-> "BOOL", nodes |-> nodes,
     rev_dep |-> rev, weak_rev_dep |-> weak, syms |-> << >>]

Graph(syms, choices) ==
    [unique_defined_syms |-> syms, unique_choices |-> choices]

\* declaration sites: in a Kconfig file or in a defconfig file, with and
\* without prompt and help, with and without a default
Filenames == {<<"Kconfig">>, <<"Kconfig.", "defconfig">>}
Texts ==
    {[prompt |-> None, help |-> None],
     [prompt |-> None, help |-> Some("")],
     [prompt |-> Some(<<"P1", Y>>), help |-> None],
     [prompt |-> Some(<<"P2", Y>>), help |-> Some("H")]}
DefaultLists == {<< >>, << <<Sym("C", TRUE), Sym("D", FALSE)>> >>}
NodePool ==
    {Node(f, l, t, d) : f \in Filenames, l \in 1..MaxLine, t \in Texts,
                        d \in DefaultLists}

\* a symbol or a choice with up to MaxNodes declaration sites
SiteGraphs ==
    {Graph(<<Sc("Symbol", "B", nodes, N, N)>>, << >>) :
        nodes \in SeqsUpTo(NodePool, MaxNodes)}
    \cup {Graph(<< >>, <<Sc("Choice", "B", nodes, N, N)>>) :
        nodes \in SeqsUpTo(NodePool, 1)}

\* reverse dependencies as kconfiglib builds them: every select (imply) of
\* the symbol by a symbol t.sym adds the OR-term t.sym && conditions
TermSyms == {"B", "C"}
CondLists ==
    {<< >>, <<Sym("D", TRUE)>>, <<Sym("D", TRUE), Sym("E", FALSE)>>,
     <<Or(Sym("D", TRUE), Sym("E", FALSE))>>, <<Not(Sym("D", TRUE))>>}
Terms == [sym : TermSyms, conds : CondLists]
TermSeqs == SeqsUpTo(Terms, MaxTerms)

RECURSIVE AndAll(_)
AndAll(conds) ==
    IF Len(conds) = 1 THEN conds[1] ELSE And(Head(conds), AndAll(Tail(conds)))
TermExpr(t) ==
    IF t.conds = << >> THEN Sym(t.sym, TRUE)
    ELSE And(Sym(t.sym, TRUE), AndAll(t.conds))
RECURSIVE OrOf(_)
OrOf(ts) ==
    IF ts = << >> THEN N
    ELSE IF Len(ts) = 1 THEN TermExpr(ts[1])
    ELSE Or(OrOf(SubSeq(ts, 1, Len(ts) - 1)), TermExpr(Last(ts)))

PromptNode == Node(<<"Kconfig">>, 1, [prompt |-> Some(<<"P1", Y>>),
                                      help |-> None], << >>)
RevGraphs ==
    {Graph(<<Sc("Symbol", "A", <<PromptNode>>, OrOf(ts), N)>>, << >>) :
        ts \in TermSeqs}
    \cup {Graph(<<Sc("Symbol", "A", <<PromptNode>>, N, OrOf(ts))>>, << >>) :
        ts \in TermSeqs}

\* graphs with several symbols and choices, out of name order, a nameless
\* choice, and sites with every kind of property
FullNode ==
    [filename |-> <<"Kconfig">>, linenr |-> 2,
     prompt |-> Some(<<"P1", Y>>), help |-> Some("H"),
     dep |-> And(Sym("D", TRUE), Not(Sym("E", FALSE))),
     orig_defaults |-> << <<Y, Y>>, <<N, Sym("D", TRUE)>> >>,
     orig_selects |-> << <<Sym("A", TRUE), Y>> >>,
     orig_implies |-> << <<Sym("C", TRUE), Or(Sym("D", TRUE), Sym("E", FALSE))>> >>,
     orig_ranges |-> << <<Sym("1", FALSE), Sym("9", FALSE), Sym("D", TRUE)>> >>,
     ancestors |-> << [prompt |-> None, item |-> ChoiceLeaf("")],
                      [prompt |-> Some(<<"Menu", Y>>), item |-> Y] >>]
ChoiceC ==
    [Sc("Choice", "C", <<PromptNode>>, N, N) EXCEPT
        !.syms = <<Sym("A", TRUE), Sym("B", TRUE)>>]
NamelessChoice == Sc("Choice", "", <<PromptNode>>, N, N)
FullGraphs ==
    {Graph(<<Sc("Symbol", "B", <<FullNode>>, N, N),
             Sc("Symbol", "A", <<PromptNode, PromptNode>>,
                OrOf(<<[sym |-> "B", conds |-> << >>]>>), N)>>,
           cs) :
        cs \in {<< >>, <<NamelessChoice>>, <<ChoiceC>>,
                <<NamelessChoice, ChoiceC>>, <<ChoiceC, NamelessChoice>>}}

Graphs == SiteGraphs \cup RevGraphs \cup FullGraphs

\* the root file: its directory part ("" for a bare file name) and whether
\* it and its includes parse
Roots == [dir : {"", "docs", "proj"}, parses : BOOLEAN]
GoodRoot == [dir |-> "proj", parses |-> TRUE]

(***************************************************************************)
(* SpecDb: the builder-inited handler on every input.                      *)
(***************************************************************************)

InitRead(par) ==
    /\ parallel = par
    /\ unread = Docs
    /\ pstate = [p \in Procs |->
                    IF p # Main THEN "idle" ELSE IF par THEN "main" ELSE "reading"]
    /\ temp_data = [p \in Procs |-> EmptyDict]
    /\ options = [p \in Procs |-> << >>]
    /\ aborted = FALSE
    /\ calls = << >>
    /\ xref = None

InitDb ==
    /\ \/ /\ kconfig_generate_db = TRUE
          /\ root = GoodRoot
          /\ kconfig \in Graphs
       \/ /\ kconfig_generate_db \in BOOLEAN
          /\ root \in Roots
          /\ kconfig \in FullGraphs
    /\ pc = "init"
    /\ cwd = StartDir
    /\ kconfig_db = << >>
    /\ kconfig_json = None
    /\ html_paths = << >>
    /\ InitRead(FALSE)

NextDb == kconfig_build_resources

SpecDb == InitDb /\ [][NextDb]_vars

(***************************************************************************)
(* Spec: one build, the builder-inited handler and then the read phase.    *)
(***************************************************************************)

LineNode(l) == [PromptNode EXCEPT !.linenr = l]

\* databases with no record, with two records of one name, and with records
\* of two names
ReadGraphs ==
    {Graph(<< >>, << >>),
     Graph(<<Sc("Symbol", "A", <<LineNode(1), LineNode(2)>>, N, N)>>, << >>),
     Graph(<<Sc("Symbol", "B", <<LineNode(1)>>, N, N),
             Sc("Symbol", "A", <<LineNode(1), LineNode(2)>>, N, N)>>, << >>)}

Init ==
    /\ kconfig_generate_db \in BOOLEAN
    /\ root \in {GoodRoot, [dir |-> "proj", parses |-> FALSE]}
    /\ kconfig \in ReadGraphs
    /\ pc = "init"
    /\ cwd = StartDir
    /\ kconfig_db = << >>
    /\ kconfig_json = None
    /\ html_paths = << >>
    /\ \E par \in BOOLEAN : InitRead(par)

Next ==
    \/ kconfig_build_resources
    \/ \E p \in Procs, d \in Docs : BeginDoc(p, d)
    \/ \E p \in Procs : Run(p)
    \/ \E p \in Procs : EndDoc(p)
    \/ \E w \in Workers : Fork(w)
    \/ \E w \in Workers : Return(w)
    \/ \E w \in Workers : Merge(w)
    \/ \E d \in Docs, t \in Targets : ResolveXref(d, t)

Spec == Init /\ [][Next]_vars

(***************************************************************************)
(* Properties of the directive and the domain (Spec).                      *)
(***************************************************************************)

\* a step that is a call of KconfigSearch.run
IsRun == Len(calls') = Len(calls) + 1
DbNames == {kconfig_db[i].name : i \in DOMAIN kconfig_db}

\* C1: within one build, after a call of run() returned the search node,
\* every later call, in the same or in another document, raises "can only
\* be used once".
C1_OncePerBuild ==
    \A i, j \in DOMAIN calls :
        (i < j /\ calls[i].outcome = "node") => calls[j].outcome = "ErrOnce"

\* C2: with kconfig_generate_db false, every call of run() raises "can not
\* be used without database" and changes neither temp_data (the inserted
\* flag) nor any registry, and returns no node.
C2_NoDbRaises ==
    [][(IsRun /\ ~kconfig_generate_db) =>
          /\ Last(calls').outcome = "ErrNoDb"
          /\ temp_data' = temp_data
          /\ options' = options]_vars

C2_Witness ==
    /\ ~kconfig_generate_db
    /\ calls # << >>
    /\ Last(calls).outcome = "ErrNoDb"
    /\ \A p \in Procs : options[p] = << >>

\* C3: a call of run() that returns the node in document D keeps the
\* entries the registry held and appends one entry per distinct name of the
\* database, each (name, name, "option", D, name, -1).
C3_RegistersEachNameOnce ==
    [][(IsRun /\ Last(calls').outcome = "node") =>
          LET p   == Last(calls').proc
              D   == Last(calls').docname
              old == options[p]
              new == options'[p]
          IN  /\ \A q \in Procs \ {p} : options'[q] = options[q]
              /\ Len(new) >= Len(old)
              /\ \A i \in DOMAIN old : new[i] = old[i]
              /\ \A n \in DbNames :
                    Cardinality({i \in (Len(old) + 1)..Len(new) :
                                    new[i][1] = n}) = 1
              /\ \A i \in (Len(old) + 1)..Len(new) :
                    /\ new[i][1] \in DbNames
                    /\ new[i] = <<new[i][1], new[i][1], "option", D,
                                  new[i][1], -1>>
              /\ D = temp_data[p]["docname"]]_vars

\* run() has returned the node for a database with several records of one
\* name and records of another name
C3_Witness ==
    /\ calls # << >>
    /\ Last(calls).outcome = "node"
    /\ Cardinality(DbNames) = 2
    /\ Len(kconfig_db) = 3
    /\ Len(options[Last(calls).proc]) = 2

\* C4: resolve_xref returns None exactly when no entry of the registry has
\* the target as its name; otherwise the node points to the document and
\* anchor of the first entry with that name, a document in which the search
\* directive was inserted and the option name; the registry is unchanged.
C4_ResolveFirstMatch ==
    [][xref' # xref =>
          LET t    == xref'[1].target
              res  == xref'[1].result
              data == options[Main]
              idx  == {i \in DOMAIN data : data[i][1] = t}
          IN  /\ options' = options
              /\ (res = None) <=> (idx = {})
              /\ idx # {} =>
                    LET f == CHOOSE i \in idx : \A k \in idx : i <= k
                    IN  /\ res[1].todocname = data[f][4]
                        /\ res[1].anchor = data[f][5]
                        /\ res[1].anchor = t
                        /\ \E c \in DOMAIN calls :
                              /\ calls[c].outcome = "node"
                              /\ calls[c].docname = res[1].todocname]_vars

\* a reference resolved against a registry that holds the target twice,
\* registered to different documents
C4_Witness ==
    /\ xref # None
    /\ xref[1].result # None
    /\ \E i, j \in DOMAIN options[Main] :
          /\ i < j
          /\ options[Main][i][1] = xref[1].target
          /\ options[Main][j][1] = xref[1].target
          /\ options[Main][i][4] # options[Main][j][4]

\* C5: a merge leaves the own registry followed by the other worker's, with
\* every entry of both, in order, duplicates included.
C5_MergeConcatenates ==
    [][\A w \in Workers :
          (pstate[w] = "returned" /\ pstate'[w] = "merged") =>
             LET R == options[Main]
                 S == options[w]
                 M == options'[Main]
             IN  /\ Len(M) = Len(R) + Len(S)
                 /\ \A i \in DOMAIN R : M[i] = R[i]
                 /\ \A j \in DOMAIN S : M[Len(R) + j] = S[j]]_vars

\* both workers are merged and the merged registry holds an entry twice
C5_Witness ==
    /\ \A w \in Workers : pstate[w] = "merged"
    /\ \E i, j \in DOMAIN options[Main] :
          i < j /\ options[Main][i] = options[Main][j]

\* C8: a registry holds at most one entry per option name.
C8_OneEntryPerName ==
    \A p \in Procs :
        \A i, j \in DOMAIN options[p] :
            i < j => options[p][i][1] # options[p][j][1]

(***************************************************************************)
(* Properties of the database builder (SpecDb).                            *)
(***************************************************************************)

Built == pc = "done" /\ kconfig_generate_db

AllScs == Range(kconfig.unique_defined_syms \o kconfig.unique_choices)

\* the named symbols and choices whose name no other one carries: their
\* records are the database records of that name
NamedScs ==
    {sc \in AllScs :
        /\ sc.name # ""
        /\ Cardinality({i \in DOMAIN (kconfig.unique_defined_syms
                                      \o kconfig.unique_choices) :
              (kconfig.unique_defined_syms \o kconfig.unique_choices)[i].name
                 = sc.name}) = 1}

RecordsOf(sc) ==
    SelectSeq(kconfig_db, LAMBDA r : r.name = ConfigName(sc.name))

Place(x) == <<x.filename, x.linenr>>
Shown(node) == HasPrompt(node) \/ HasHelp(node)
PromptText(node) ==
    IF node.prompt = None THEN None ELSE Some(node.prompt[1][1])

\* the first declaration site with prompt or help at the place of x
FirstShownAt(sc, x) ==
    sc.nodes[CHOOSE k \in DOMAIN sc.nodes :
                /\ Shown(sc.nodes[k]) /\ Place(sc.nodes[k]) = Place(x)
                /\ \A m \in 1..(k - 1) :
                      ~(Shown(sc.nodes[m]) /\ Place(sc.nodes[m]) = Place(x))]

\* C6: in the database, a named symbol or choice has at most one record per
\* (filename, linenr); of its declaration sites with a prompt or help that
\* share a filename and line, the first in declaration order yields the
\* record and the later ones yield none.
C6_OneRecordPerPlace ==
    Built =>
      \A sc \in NamedScs :
        LET rs == RecordsOf(sc)
        IN  /\ \A i, j \in DOMAIN rs : i # j => Place(rs[i]) # Place(rs[j])
            /\ \A k \in DOMAIN sc.nodes :
                  Shown(sc.nodes[k]) =>
                     \E i \in DOMAIN rs : Place(rs[i]) = Place(sc.nodes[k])
            /\ \A i \in DOMAIN rs :
                  /\ \E k \in DOMAIN sc.nodes :
                        Shown(sc.nodes[k]) /\ Place(sc.nodes[k]) = Place(rs[i])
                  /\ rs[i].prompt = PromptText(FirstShownAt(sc, rs[i]))
                  /\ rs[i].help = FirstShownAt(sc, rs[i]).help

\* two sites with a prompt at the same place, with different prompts, and
\* the one record the database holds for them
C6_Witness ==
    /\ Built
    /\ \E sc \in NamedScs :
          /\ Len(sc.nodes) = 2
          /\ Shown(sc.nodes[1]) /\ Shown(sc.nodes[2])
          /\ Place(sc.nodes[1]) = Place(sc.nodes[2])
          /\ PromptText(sc.nodes[1]) # PromptText(sc.nodes[2])
          /\ Len(RecordsOf(sc)) = 1

\* C7: for a symbol whose reverse dependency is the OR of the terms ts, each
\* a selecting symbol alone or AND-ed with conditions, selected_by of every
\* record of the symbol lists CONFIG_<selecting symbol> once per term, in
\* order, whatever the conditions; it is empty for the constant n; and
\* implied_by is the same of the weak reverse dependency.
C7_SelectedBy ==
    Built =>
      \A sc \in NamedScs :
        sc.kind = "Symbol" =>
          LET rs == RecordsOf(sc)
              Listed(rev, ts, names) ==
                  rev = OrOf(ts) =>
                     names = [i \in DOMAIN ts |-> ConfigName(ts[i].sym)]
          IN  \A i \in DOMAIN rs :
                /\ IF sc.rev_dep = N THEN rs[i].selected_by = << >>
                   ELSE \A ts \in TermSeqs :
                           Listed(sc.rev_dep, ts, rs[i].selected_by)
                /\ IF sc.weak_rev_dep = N THEN rs[i].implied_by = << >>
                   ELSE \A ts \in TermSeqs :
                           Listed(sc.weak_rev_dep, ts, rs[i].implied_by)

\* a symbol selected by two symbols, both under conditions, and its record
C7_Witness ==
    /\ Built
    /\ \E sc \in NamedScs :
          /\ sc.rev_dep = OrOf(<<[sym |-> "C", conds |-> <<Sym("D", TRUE),
                                                          Sym("E", FALSE)>>],
                                 [sym |-> "B", conds |-> <<Not(Sym("D", TRUE))>>]>>)
          /\ RecordsOf(sc) # << >>
          /\ RecordsOf(sc)[1].selected_by = <<ConfigName("C"), ConfigName("B")>>

\* C9: whatever the outcome of the handler's kconfig_load, the working
\* directory afterwards is the working directory before.
C9_CwdRestored == pc # "init" => cwd = StartDir

\* C10 as claimed: no database record has a filename containing
\* "defconfig".
C10_NoDefconfigRecord ==
    \A i \in DOMAIN kconfig_db : ~IsDefconfig(kconfig_db[i].filename)

RECURSIVE SumLen(_)
SumLen(ss) == IF ss = << >> THEN 0 ELSE Len(Head(ss)) + SumLen(Tail(ss))

\* C10, amended: the defaults of the defconfig sites of a named symbol or
\* choice, and of no other site, are the alt_defaults of each of its
\* records; the database holds a record for the place (filename, linenr)
\* of a defconfig site exactly when a site at that place carries a prompt
\* or a help text, as for any other site.
C10_DefconfigSites ==
    Built =>
      \A sc \in NamedScs :
        LET rs  == RecordsOf(sc)
            aux == SelectSeq(sc.nodes, LAMBDA node : IsDefconfig(node.filename))
        IN  /\ \A i \in DOMAIN rs :
                  /\ Len(rs[i].alt_defaults)
                        = SumLen([k \in DOMAIN aux |-> aux[k].orig_defaults])
                  /\ \A j \in DOMAIN rs[i].alt_defaults :
                        IsDefconfig(rs[i].alt_defaults[j][2])
            /\ \A k \in DOMAIN aux :
                  (\E i \in DOMAIN rs : Place(rs[i]) = Place(aux[k]))
                     <=> \E m \in DOMAIN sc.nodes :
                            /\ Shown(sc.nodes[m])
                            /\ Place(sc.nodes[m]) = Place(aux[k])

\* a defconfig site with a prompt and a default: it has a record of its own,
\* and the default is in that record's defaults and its alt_defaults
C10_Witness ==
    /\ Built
    /\ \E sc \in NamedScs :
          /\ Len(sc.nodes) = 1
          /\ IsDefconfig(sc.nodes[1].filename)
          /\ HasPrompt(sc.nodes[1])
          /\ sc.nodes[1].orig_defaults # << >>
          /\ Len(RecordsOf(sc)) = 1
          /\ IsDefconfig(RecordsOf(sc)[1].filename)
          /\ Len(RecordsOf(sc)[1].alt_defaults) = 1

====
